---------------------------- MODULE Spec2Model ----------------------------
(***************************************************************************)
(* A model of src/sudoku.py: the puzzle engine of SudokuGame (is_safe,     *)
(* find_empty_location, solve_grid, fill_grid, remove_numbers,             *)
(* generate_sudoku) and the handlers of the window that use it (new_game,  *)
(* restart, hint, check_input, update_grid).  save_game, load_game and     *)
(* quit are left out.                                                      *)
(*                                                                         *)
(* The program fixes a 9x9 grid with 3x3 blocks.  The model keeps the code *)
(* as it is written and makes the block edge a bound, BoxSize: the grid    *)
(* has N = BoxSize * BoxSize rows, columns and digits.  With BoxSize = 2   *)
(* (a 4x4 grid) TLC can enumerate every run; BoxSize = 3 is the program.   *)
(* The removal targets and the attempt budget are scaled with it.          *)
(***************************************************************************)
EXTENDS Integers, FiniteSets, Sequences

VARIABLES
    pc,         \* where the modelled call or window is
    args,       \* the arguments of the call; in the window, the combo box text
    grid,       \* the array an engine call works on, in place
    entry,      \* the same array as it was when the call was made
    ret,        \* what the call returned
    mem,        \* the arrays of generate_sudoku: solution, puzzle, grid_copy
    count,      \* remove_numbers: removals still wanted
    attempts,   \* remove_numbers: loop iterations so far
    last,       \* remove_numbers: <<>>, or what the latest loop iteration did
    game_data,  \* the window: None or [puzzle, solution]
    errors,     \* the window: mistakes made
    cells       \* the window: per cell, the text shown and the read-only flag

vars == <<pc, args, grid, entry, ret, mem, count, attempts, last,
          game_data, errors, cells>>

---------------------------------------------------------------------------
(* Sizes. *)

BoxSize == 2
N == BoxSize * BoxSize
Idx == 0 .. (N - 1)
Digits == 1 .. N
Cells == Idx \X Idx
None == "None"

ZeroGrid == [i \in Idx |-> [j \in Idx |-> 0]]

\* game_data = None, as a dictionary that holds no arrays
NoGame == [puzzle |-> <<>>, solution |-> <<>>]

Put(g, row, col, v) == [g EXCEPT ![row][col] = v]

---------------------------------------------------------------------------
(* The solver. *)

\* the slice k - k % 3 : k - k % 3 + 3 of is_safe
BlockSlice(k) == (k - (k % BoxSize)) .. (k - (k % BoxSize) + BoxSize - 1)

\* is_safe with the block test left out
IsSafeNoBlock(g, row, col, number) ==
    /\ \A j \in Idx : g[row][j] # number
    /\ \A i \in Idx : g[i][col] # number

\* is_safe without the column test
IsSafeNoColumn(g, row, col, number) ==
    /\ \A j \in Idx : g[row][j] # number
    /\ \A i \in BlockSlice(row) : \A j \in BlockSlice(col) : g[i][j] # number

\* is_safe looking only at the cells other than (row, col)
IsSafeElsewhere(g, row, col, number) ==
    /\ \A j \in Idx \ {col} : g[row][j] # number
    /\ \A i \in Idx \ {row} : g[i][col] # number
    /\ \A i \in BlockSlice(row) : \A j \in BlockSlice(col) :
          <<i, j>> # <<row, col>> => g[i][j] # number

\* is_safe: number is in none of grid[row], grid[:, col] and the block slice
IsSafe(g, row, col, number) ==
    /\ \A j \in Idx : g[row][j] # number
    /\ \A i \in Idx : g[i][col] # number
    /\ \A i \in BlockSlice(row) : \A j \in BlockSlice(col) : g[i][j] # number

\* the loop stopping one digit early
LastNumberShort == N - 1

\* the last digit of `for number in range(1, 10)`
LastNumber == N

Min(S) == CHOOSE a \in S : \A b \in S : a <= b

\* find_empty_location: the first row that holds a zero and the first zero
\* in it, as the loops `for i in range(9): for j in range(9)` find it, or None
FindEmptyLocation(g) ==
    LET rows == {i \in Idx : \E j \in Idx : g[i][j] = 0}
    IN  IF rows = {} THEN None
        ELSE LET i == Min(rows)
             IN  <<i, Min({j \in Idx : g[i][j] = 0})>>

RECURSIVE SolveGrid(_)
RECURSIVE SolveNumbers(_, _, _, _)

\* solve_grid's loop from `number` on, with the reset after a failed recursion left out
SolveNumbersNoReset(g, row, col, number) ==
    IF number > LastNumber THEN [ret |-> FALSE, grid |-> g]
    ELSE IF IsSafe(g, row, col, number)
         THEN LET sub == SolveGrid(Put(g, row, col, number))
              IN  IF sub.ret THEN sub
                  ELSE SolveNumbers(sub.grid, row, col, number + 1)
         ELSE SolveNumbers(g, row, col, number + 1)

\* solve_grid's loop `for number in range(1, 10)` from `number` on, at the
\* empty cell (row, col): what it returns and the array as it leaves it
SolveNumbers(g, row, col, number) ==
    IF number > LastNumber THEN [ret |-> FALSE, grid |-> g]
    ELSE IF IsSafe(g, row, col, number)
         THEN LET sub == SolveGrid(Put(g, row, col, number))
              IN  IF sub.ret THEN sub
                  ELSE SolveNumbers(Put(sub.grid, row, col, 0), row, col, number + 1)
         ELSE SolveNumbers(g, row, col, number + 1)

\* solve_grid: what it returns and the array as it leaves it
SolveGrid(g) ==
    LET location == FindEmptyLocation(g)
    IN  IF location = None THEN [ret |-> TRUE, grid |-> g]
        ELSE SolveNumbers(g, location[1], location[2], 1)

---------------------------------------------------------------------------
(* The generator: fill_grid. *)

RECURSIVE FillGrid(_)
RECURSIVE FillNumbers(_, _, _, _)

\* fill_grid's scan `for i in range(0, 81)`: the first zero cell, or the
\* last cell when the scan ends without one
FillScan(g) ==
    LET location == FindEmptyLocation(g)
    IN  IF location = None THEN [found |-> FALSE, row |-> N - 1, col |-> N - 1]
        ELSE [found |-> TRUE, row |-> location[1], col |-> location[2]]

\* fill_grid's loop `for number in numbers` at the cell (row, col), where
\* `numbers` is the set the shuffled list has not reached yet: every
\* outcome [ret, grid] some order of that set produces.  The next number to
\* pass is_safe may be any safe one, after any of the unsafe ones; when a
\* recursion fails the loop goes on with the array as the recursion left it.
FillNumbers(g, row, col, numbers) ==
    LET safe == {n \in numbers : IsSafe(g, row, col, n)}
        Try(n) ==
            LET g1 == Put(g, row, col, n)
            IN  IF FindEmptyLocation(g1) = None
                THEN {[ret |-> TRUE, grid |-> g1]}
                ELSE LET sub == FillGrid(g1)
                     IN  {r \in sub : r.ret}
                         \cup UNION {FillNumbers(r.grid, row, col, numbers \ (skipped \cup {n})) :
                                        r \in {x \in sub : ~x.ret},
                                        skipped \in SUBSET (numbers \ safe)}
    IN  IF safe = {}
        THEN {[ret |-> FALSE, grid |-> Put(g, row, col, 0)]}
        ELSE UNION {Try(n) : n \in safe}

\* fill_grid: every outcome [ret, grid] of a call on the array g
FillGrid(g) ==
    LET at == FillScan(g)
    IN  IF at.found THEN FillNumbers(g, at.row, at.col, Digits)
        ELSE {[ret |-> FALSE, grid |-> Put(g, at.row, at.col, 0)]}

---------------------------------------------------------------------------
(* The generator: remove_numbers and generate_sudoku.  The three arrays    *)
(* live in mem under their names; a call is handed the name of the array   *)
(* it works on, so that a write shows in every variable that names it.     *)

EasyCount == 1
MediumCount == 2
HardCount == 3
MaxAttempts == 2

\* generate_sudoku's branches on difficulty: the count handed to remove_numbers
TargetCount(difficulty) ==
    IF difficulty = "Easy" THEN EasyCount
    ELSE IF difficulty = "Medium" THEN MediumCount
    ELSE HardCount

\* `puzzle = solution` in place of the copy
PuzzleRefAliased == "solution"

\* `puzzle = solution.copy()`: puzzle names an array of its own
PuzzleRef == "puzzle"

\* `grid_copy = grid.copy()`: the trial works on an array of its own
TrialRef == "grid_copy"

\* the loop test with the count left out
RemoveContinuesNoCount(cnt, att) == att < MaxAttempts

\* remove_numbers' loop test `count > 0 and attempts < max_attempts`
RemoveContinues(cnt, att) == cnt > 0 /\ att < MaxAttempts

\* `attempts += 1` moved into the branch of a filled cell
AttemptsAfterFilledOnly(att, backup) == IF backup # 0 THEN att + 1 ELSE att

\* `attempts += 1`, the last statement of the loop body
AttemptsAfter(att, backup) == att + 1

\* one pass of remove_numbers' loop body on the array named ref, with the
\* random cell (row, col): the arrays, the count and the attempts after it,
\* and in `last` the cell, the value found there and whether a trial was
\* made and returned True
RemoveIteration(m, ref, cnt, att, row, col) ==
    LET backup == m[ref][row][col]
    IN  IF backup # 0
        THEN LET m1 == [m EXCEPT ![ref] = Put(m[ref], row, col, 0)]
                 m2 == [m1 EXCEPT ![TrialRef] = m1[ref]]
                 r == SolveGrid(m2[TrialRef])
                 m3 == [m2 EXCEPT ![TrialRef] = r.grid]
             IN  [mem |-> IF r.ret THEN m3 ELSE [m3 EXCEPT ![ref] = Put(m3[ref], row, col, backup)],
                  count |-> IF r.ret THEN cnt - 1 ELSE cnt,
                  attempts |-> AttemptsAfter(att, backup),
                  last |-> <<[row |-> row, col |-> col, backup |-> backup, ret |-> r.ret]>>]
        ELSE [mem |-> m, count |-> cnt, attempts |-> AttemptsAfter(att, backup),
              last |-> <<[row |-> row, col |-> col, backup |-> backup, ret |-> FALSE]>>]

\* the dictionary with the two arrays swapped
GameDataSwapped(m) == [puzzle |-> m["solution"], solution |-> m[PuzzleRef]]

\* generate_sudoku's result: {'puzzle': puzzle, 'solution': solution}
GameData(m) == [puzzle |-> m[PuzzleRef], solution |-> m["solution"]]

RECURSIVE RemoveNumbers(_, _, _, _, _)

\* remove_numbers on the array named ref, its random cells drawn from picks:
\* every [mem, count, attempts] the loop can end with
RemoveNumbers(m, ref, cnt, att, picks) ==
    IF RemoveContinues(cnt, att)
    THEN UNION {RemoveNumbers(it.mem, ref, it.count, it.attempts, picks) :
                   it \in {RemoveIteration(m, ref, cnt, att, p[1], p[2]) : p \in picks}}
    ELSE {[mem |-> m, count |-> cnt, attempts |-> att]}

\* generate_sudoku: every dictionary it can return when fill_grid leaves one
\* of the arrays in fills and remove_numbers draws its cells from picks
GenerateSudoku(difficulty, fills, picks) ==
    UNION {{GameData(e.mem) :
              e \in RemoveNumbers([[solution |-> s, puzzle |-> ZeroGrid, grid_copy |-> ZeroGrid]
                                      EXCEPT ![PuzzleRef] = s],
                                  PuzzleRef, TargetCount(difficulty), 0, picks)} :
           s \in fills}

---------------------------------------------------------------------------
(* The window.  u is [difficulty, game_data, errors, cells, crashed]:      *)
(* difficulty is the text of the combo box, a cell's text is its digit, or *)
(* 0 for the empty string.  A handler runs to its end, nested slots        *)
(* included: setText and clear emit textChanged when the text changes, and *)
(* textChanged is connected to check_input.  Each operator is the set of   *)
(* windows the handler can leave; games[d] holds the dictionaries          *)
(* generate_sudoku(d) can return.                                          *)

MaxErrors == 3

ComboItems == {"Easy", "Medium", "Hard"}

RECURSIVE CheckInput(_, _, _)
RECURSIVE UpdateFrom(_, _, _)

\* QLineEdit.setText / clear on cell p, and the check_input it triggers
SetText(u, p, text, games) ==
    IF u.crashed \/ u.cells[p].text = text THEN {u}
    ELSE CheckInput([u EXCEPT !.cells[p].text = text], p, games)

\* update_grid's loops from the k-th cell on
UpdateFrom(u, k, games) ==
    IF k = N * N \/ u.crashed THEN {u}
    ELSE LET p == <<k \div N, k % N>>
             v == u.game_data.puzzle[p[1]][p[2]]
         IN  UNION {UpdateFrom([u1 EXCEPT !.cells[p].readOnly = (v # 0)], k + 1, games) :
                       u1 \in SetText(u, p, v, games)}

\* update_grid
UpdateGrid(u, games) == UpdateFrom(u, 0, games)

\* new_game
NewGame(u, games) ==
    UNION {UpdateGrid([u EXCEPT !.game_data = g, !.errors = 0], games) :
              g \in games[u.difficulty]}

\* restart
Restart(u, games) ==
    IF u.game_data # NoGame THEN UpdateGrid([u EXCEPT !.errors = 0], games) ELSE {u}

\* hint
Hint(u, games) ==
    LET empty_cells == {p \in Cells : u.cells[p].text = 0}
    IN  IF u.game_data # NoGame /\ empty_cells # {}
        THEN UNION {SetText(u, p, u.game_data.solution[p[1]][p[2]], games) : p \in empty_cells}
        ELSE {u}

\* check_input with sender the cell p; subscripting game_data = None raises
CheckInput(u, p, games) ==
    LET text == u.cells[p].text
    IN  IF text = 0 THEN {u}
        ELSE IF u.game_data = NoGame THEN {[u EXCEPT !.crashed = TRUE]}
        ELSE IF text # u.game_data.solution[p[1]][p[2]]
             THEN LET u1 == [u EXCEPT !.errors = @ + 1]
                      after == IF u1.errors >= MaxErrors THEN NewGame(u1, games) ELSE {u1}
                  IN  UNION {SetText(u2, p, 0, games) : u2 \in after}
             ELSE {u}

---------------------------------------------------------------------------
(* Values of the variables a specification does not use. *)

NoArgs == [row |-> 0, col |-> 0, number |-> 0]
NoMem == [solution |-> ZeroGrid, puzzle |-> ZeroGrid, grid_copy |-> ZeroGrid]
NoCells == [p \in Cells |-> [text |-> 0, readOnly |-> FALSE]]

EngineIdle ==
    /\ mem = NoMem /\ count = 0 /\ attempts = 0 /\ last = <<>>
    /\ game_data = NoGame /\ errors = 0 /\ cells = NoCells

---------------------------------------------------------------------------
(* FillSpec: one call of fill_grid on the all-zero array, as              *)
(* generate_sudoku makes it.                                               *)

FillInit ==
    /\ pc = "call" /\ args = NoArgs
    /\ grid = ZeroGrid /\ entry = ZeroGrid /\ ret = None
    /\ EngineIdle

FillCall ==
    /\ pc = "call"
    /\ \E r \in FillGrid(grid) :
          /\ grid' = r.grid
          /\ ret' = r.ret
    /\ pc' = "done"
    /\ UNCHANGED <<args, entry, mem, count, attempts, last, game_data, errors, cells>>

FillNext == FillCall

FillSpec == FillInit /\ [][FillNext]_vars

\* every row, column and block of g is a permutation of 1..N
IsPermutation(S, g) == \A d \in Digits : \E p \in S : g[p[1]][p[2]] = d
RowCells(i) == {p \in Cells : p[1] = i}
ColCells(j) == {p \in Cells : p[2] = j}
BlockCells(a, b) == {p \in Cells : p[1] \div BoxSize = a /\ p[2] \div BoxSize = b}
Units == {RowCells(i) : i \in Idx} \cup {ColCells(j) : j \in Idx}
            \cup {BlockCells(a, b) : a \in 0 .. (BoxSize - 1), b \in 0 .. (BoxSize - 1)}
SolvedInvariant(g) == \A S \in Units : IsPermutation(S, g)

---------------------------------------------------------------------------
(* The arrays the engine calls are checked on. *)

MaxFilled == 2
MaxHoles == 3
MaxRefills == 1

\* the array that holds f on the cells f is given on, and 0 elsewhere
GridOf(f) == [i \in Idx |-> [j \in Idx |-> IF <<i, j>> \in DOMAIN f THEN f[<<i, j>>] ELSE 0]]

UpTo(k) == {S \in SUBSET Cells : Cardinality(S) <= k}

\* every complete array that satisfies the solved-grid invariant: the bands
\* (BoxSize rows whose blocks are permutations) whose columns fit together
RowPermutations == {f \in [Idx -> Digits] : \A i, j \in Idx : f[i] = f[j] => i = j}
BandRows == 0 .. (BoxSize - 1)
Bands ==
    {b \in [BandRows -> RowPermutations] :
        \A k \in BandRows : \A d \in Digits :
            \E i \in BandRows : \E j \in (k * BoxSize) .. (k * BoxSize + BoxSize - 1) : b[i][j] = d}
AllSolved ==
    {[i \in Idx |-> s[i \div BoxSize][i % BoxSize]] : s \in
        {t \in [BandRows -> Bands] :
            \A j \in Idx : \A d \in Digits : \E a, i \in BandRows : t[a][i][j] = d}}

\* the complete arrays whose first row is 1, 2, ..., N
SolveBases == {g \in AllSolved : \A j \in Idx : g[0][j] = j + 1}

\* g with the cells of H zeroed, and then the cells f is given on set to f
Zeroed(g, H) == [i \in Idx |-> [j \in Idx |-> IF <<i, j>> \in H THEN 0 ELSE g[i][j]]]
Refilled(g, f) == [i \in Idx |-> [j \in Idx |-> IF <<i, j>> \in DOMAIN f THEN f[<<i, j>>] ELSE g[i][j]]]

\* the puzzle invariant: no value twice among the filled cells of a unit
PuzzleInvariant(g) ==
    \A S \in Units : \A p, q \in S :
        (g[p[1]][p[2]] # 0 /\ g[p[1]][p[2]] = g[q[1]][q[2]]) => p = q

\* s fills g: it agrees with g on every filled cell of g
Fills(s, g) == \A p \in Cells : g[p[1]][p[2]] # 0 => s[p[1]][p[2]] = g[p[1]][p[2]]
HasCompletion(g) == \E s \in AllSolved : Fills(s, g)

---------------------------------------------------------------------------
(* SafeSpec: one call of is_safe. *)

SafeInit ==
    /\ pc = "call"
    /\ \E S \in UpTo(MaxFilled) : \E f \in [S -> Digits] : grid = GridOf(f)
    /\ args \in [row : Idx, col : Idx, number : Digits]
    /\ entry = grid /\ ret = None
    /\ EngineIdle

SafeCall ==
    /\ pc = "call"
    /\ ret' = IsSafe(grid, args.row, args.col, args.number)
    /\ pc' = "done"
    /\ UNCHANGED <<args, grid, entry, mem, count, attempts, last, game_data, errors, cells>>

SafeNext == SafeCall

SafeSpec == SafeInit /\ [][SafeNext]_vars

---------------------------------------------------------------------------
(* SolveSpec: one call of solve_grid. *)

SolveInit ==
    /\ pc = "call" /\ args = NoArgs
    /\ \/ \E S \in UpTo(MaxFilled) : \E f \in [S -> Digits] : grid = GridOf(f)
       \/ \E g \in SolveBases : \E H \in UpTo(MaxHoles) :
             \E R \in {Q \in SUBSET H : Cardinality(Q) <= MaxRefills} :
                \E f \in [R -> Digits] : grid = Refilled(Zeroed(g, H), f)
    /\ entry = grid /\ ret = None
    /\ EngineIdle

SolveCall ==
    /\ pc = "call"
    /\ LET r == SolveGrid(grid)
       IN  /\ grid' = r.grid
           /\ ret' = r.ret
    /\ pc' = "done"
    /\ UNCHANGED <<args, entry, mem, count, attempts, last, game_data, errors, cells>>

SolveNext == SolveCall

SolveSpec == SolveInit /\ [][SolveNext]_vars

---------------------------------------------------------------------------
(* GenSpec: one call of generate_sudoku, remove_numbers one pass of its    *)
(* loop at a time.                                                         *)

Difficulties == {"Easy", "Medium", "Hard", "Expert"}

GenInit ==
    /\ pc = "generate"
    /\ args \in [difficulty : Difficulties]
    /\ grid = ZeroGrid /\ entry = ZeroGrid /\ ret = None
    /\ mem = NoMem /\ count = 0 /\ attempts = 0 /\ last = <<>>
    /\ game_data = NoGame /\ errors = 0 /\ cells = NoCells

\* solution = np.zeros(...); fill_grid(solution); puzzle = solution.copy();
\* then remove_numbers is entered with its count and attempts = 0
GenFill ==
    /\ pc = "generate"
    /\ \E r \in FillGrid(ZeroGrid) :
          LET m1 == [mem EXCEPT !["solution"] = r.grid]
          IN  mem' = [m1 EXCEPT ![PuzzleRef] = m1["solution"]]
    /\ count' = TargetCount(args.difficulty)
    /\ attempts' = 0
    /\ pc' = "remove"
    /\ UNCHANGED <<args, grid, entry, ret, last, game_data, errors, cells>>

GenRemove ==
    /\ pc = "remove"
    /\ RemoveContinues(count, attempts)
    /\ \E row \in Idx, col \in Idx :
          LET it == RemoveIteration(mem, PuzzleRef, count, attempts, row, col)
          IN  /\ mem' = it.mem
              /\ count' = it.count
              /\ attempts' = it.attempts
              /\ last' = it.last
    /\ UNCHANGED <<pc, args, grid, entry, ret, game_data, errors, cells>>

GenReturn ==
    /\ pc = "remove"
    /\ ~RemoveContinues(count, attempts)
    /\ game_data' = GameData(mem)
    /\ pc' = "done"
    /\ UNCHANGED <<args, grid, entry, ret, mem, count, attempts, last, errors, cells>>

GenNext == GenFill \/ GenRemove \/ GenReturn

GenSpec == GenInit /\ [][GenNext]_vars

---------------------------------------------------------------------------
(* UISpec: the window from its construction on, one event at a time.  The  *)
(* games new_game can draw are those generate_sudoku returns when the      *)
(* shuffles of fill_grid leave the first row in ascending order and        *)
(* remove_numbers draws its cells among the first UIPickCells cells.       *)

UIPickCells == 3

UIFills == {r.grid : r \in {x \in FillGrid(ZeroGrid) : \A j \in Idx : x.grid[0][j] = j + 1}}
UIPicks == {p \in Cells : p[1] * N + p[2] < UIPickCells}
UIGames == [d \in ComboItems |-> GenerateSudoku(d, UIFills, UIPicks)]

Window ==
    [difficulty |-> args.difficulty, game_data |-> game_data, errors |-> errors,
     cells |-> cells, crashed |-> FALSE]

Shows(u) ==
    /\ game_data' = u.game_data
    /\ errors' = u.errors
    /\ cells' = u.cells
    /\ pc' = IF u.crashed THEN "crashed" ELSE "idle"
    /\ UNCHANGED <<args, grid, entry, ret, mem, count, attempts, last>>

\* the window after __init__: the combo box shows its first item
UIInit ==
    /\ pc = "idle" /\ args = [difficulty |-> "Easy"]
    /\ grid = ZeroGrid /\ entry = ZeroGrid /\ ret = None
    /\ mem = NoMem /\ count = 0 /\ attempts = 0 /\ last = <<>>
    /\ game_data = NoGame /\ errors = 0 /\ cells = NoCells

\* the player picks an item of the combo box
UISelect ==
    /\ pc = "idle"
    /\ \E d \in ComboItems : args' = [difficulty |-> d]
    /\ UNCHANGED <<pc, grid, entry, ret, mem, count, attempts, last, game_data, errors, cells>>

\* the New Game button
UINewGame ==
    /\ pc = "idle"
    /\ \E u \in NewGame(Window, UIGames) : Shows(u)

\* the Restart button
UIRestart ==
    /\ pc = "idle"
    /\ \E u \in Restart(Window, UIGames) : Shows(u)

\* the Hint button
UIHint ==
    /\ pc = "idle"
    /\ \E u \in Hint(Window, UIGames) : Shows(u)

\* the player types the digit d into the editable cell p
UIInput ==
    /\ pc = "idle"
    /\ \E p \in Cells : \E d \in Digits :
          /\ ~cells[p].readOnly
          /\ \E u \in SetText(Window, p, d, UIGames) : Shows(u)

\* the player empties the editable cell p
UIErase ==
    /\ pc = "idle"
    /\ \E p \in Cells :
          /\ ~cells[p].readOnly
          /\ \E u \in SetText(Window, p, 0, UIGames) : Shows(u)

UINext == UISelect \/ UINewGame \/ UIRestart \/ UIHint \/ UIInput \/ UIErase

UISpec == UIInit /\ [][UINext]_vars

---------------------------------------------------------------------------
(* Properties of fill_grid, under FillSpec.                                *)

\* C1: whatever orders the shuffles produce, fill_grid started on the
\* all-zero grid returns True and leaves a complete grid in which every
\* row, every column and every block is a permutation of the digits.
FillGridValid ==
    pc = "done" => (ret = TRUE /\ SolvedInvariant(grid) /\ \A p \in Cells : grid[p[1]][p[2]] \in Digits)

\* a run whose shuffles did not leave the digits in ascending order
FillGridValidWitness ==
    /\ pc = "done" /\ ret = TRUE
    /\ grid[0][0] # 1 /\ grid[1][0] = 1 /\ grid[N - 1][N - 1] = N

---------------------------------------------------------------------------
(* Properties of is_safe, under SafeSpec.                                  *)

Peers(row, col) ==
    RowCells(row) \cup ColCells(col) \cup BlockCells(row \div BoxSize, col \div BoxSize)

OccursAt(S) == \E p \in S : grid[p[1]][p[2]] = args.number

---------------------------------------------------------------------------
(* Properties of solve_grid, under SolveSpec.                              *)

FirstEmpty(g) == FindEmptyLocation(g)

\* C3: on a grid whose filled cells satisfy the puzzle invariant,
\* solve_grid returns True exactly when a completion satisfying the
\* solved-grid invariant exists; when it returns True the grid holds such a
\* completion and every cell filled on entry keeps its value.
SolveGridDecides ==
    (pc = "done" /\ PuzzleInvariant(entry)) =>
        /\ ret = HasCompletion(entry)
        /\ ret = TRUE => /\ SolvedInvariant(grid)
                         /\ \A p \in Cells : grid[p[1]][p[2]] \in Digits
                         /\ Fills(grid, entry)

\* a puzzle with more than one completion, of which the search returned one
SolveGridDecidesWitness ==
    /\ pc = "done" /\ ret = TRUE
    /\ PuzzleInvariant(entry) /\ entry # grid
    /\ \E s \in AllSolved : Fills(s, entry) /\ s # grid

\* C4: whenever solve_grid returns False the grid is cell for cell the grid
\* it was called with: the cells empty on entry are 0 again and no filled
\* cell has changed.
SolveGridRestores ==
    (pc = "done" /\ ret = FALSE) => \A p \in Cells : grid[p[1]][p[2]] = entry[p[1]][p[2]]

\* a failed search that had placed a digit: the first empty cell admits a
\* digit, which the search wrote and had to take back
SolveGridRestoresWitness ==
    /\ pc = "done" /\ ret = FALSE
    /\ FirstEmpty(entry) # None
    /\ \E n \in Digits : IsSafe(entry, FirstEmpty(entry)[1], FirstEmpty(entry)[2], n)

---------------------------------------------------------------------------
(* Properties of generate_sudoku and remove_numbers, under GenSpec.        *)

Zeros(g) == Cardinality({p \in Cells : g[p[1]][p[2]] = 0})
Iterated == last # <<>>
Picked == last[1]

RemovalsBounded ==
    /\ attempts \in 0 .. MaxAttempts
    /\ pc = "done" =>
          LET target == IF args.difficulty = "Easy" THEN EasyCount
                        ELSE IF args.difficulty = "Medium" THEN MediumCount
                        ELSE HardCount
          IN  /\ Zeros(game_data.puzzle) <= target
              /\ Zeros(game_data.puzzle) < target => attempts = MaxAttempts
              /\ Zeros(game_data.puzzle) = target - count

\* the budget ran out before the target was reached
RemovalsBoundedWitness ==
    /\ pc = "done" /\ args.difficulty = "Medium"
    /\ attempts = MaxAttempts
    /\ Zeros(game_data.puzzle) = MediumCount - 1

\* C7: once fill_grid has produced the solution no later step changes it;
\* remove_numbers writes to the puzzle copy only, and a solvability trial
\* to a further copy only, so a cell of the puzzle changes only from its
\* value to 0 (or back to that value), and the dictionary returned holds
\* the solution as fill_grid left it.
SolutionFrozen ==
    [][pc = "remove" =>
          /\ mem'["solution"] = mem["solution"]
          /\ \A p \in Cells :
                \/ mem'["puzzle"][p[1]][p[2]] = mem["puzzle"][p[1]][p[2]]
                \/ mem["puzzle"][p[1]][p[2]] # 0 /\ mem'["puzzle"][p[1]][p[2]] = 0
                \/ /\ mem["puzzle"][p[1]][p[2]] = 0
                   /\ mem'["puzzle"][p[1]][p[2]] = mem["solution"][p[1]][p[2]]
          /\ pc' = "done" => game_data'.solution = mem["solution"]]_vars

\* a pass removed a cell: the puzzle has a hole where the trial copy and
\* the solution are complete
SolutionFrozenWitness ==
    /\ pc = "remove" /\ Iterated /\ Picked.backup # 0
    /\ mem["puzzle"][Picked.row][Picked.col] = 0
    /\ mem["grid_copy"][Picked.row][Picked.col] # 0
    /\ mem["solution"][Picked.row][Picked.col] = Picked.backup

\* C8 as stated: every pass of the loop counted against the attempt budget
\* picked a cell that was filled and zeroed it; none is spent on a cell that
\* was already empty.
CountedPassesPickFilled ==
    (Iterated /\ attempts > 0) => Picked.backup # 0

\* C8: every pass of the loop is counted against the attempt budget,
\* whether the cell it picked was filled or already empty; a pass that
\* picked a filled cell zeroes it and tries to solve, a pass that picked an
\* empty cell changes nothing but the attempt count.
EveryPassCounted ==
    [][(pc = "remove" /\ pc' = "remove") =>
          LET at == last'[1]
          IN  /\ attempts' = attempts + 1
              /\ at.backup = mem["puzzle"][at.row][at.col]
              /\ at.backup = 0 => (mem' = mem /\ count' = count)
              /\ at.backup # 0 =>
                    /\ mem'["puzzle"][at.row][at.col] = IF at.ret THEN 0 ELSE at.backup
                    /\ count' = IF at.ret THEN count - 1 ELSE count]_vars

\* the last attempt of the budget went to a cell emptied by an earlier pass
EveryPassCountedWitness ==
    /\ Iterated /\ Picked.backup = 0
    /\ attempts = MaxAttempts
    /\ count > 0
    /\ mem["puzzle"][Picked.row][Picked.col] = 0

\* C9: during and after remove_numbers every non-zero cell of the puzzle
\* equals the solution's cell at the same position, in the arrays and in
\* the dictionary returned, which is what hint reveals and check_input
\* accepts.
GivensMatchSolution ==
    /\ pc = "remove" =>
          \A p \in Cells : mem["puzzle"][p[1]][p[2]] \in {0, mem["solution"][p[1]][p[2]]}
    /\ pc = "done" =>
          /\ SolvedInvariant(game_data.solution)
          /\ \A p \in Cells :
                game_data.puzzle[p[1]][p[2]] # 0 =>
                    game_data.puzzle[p[1]][p[2]] = game_data.solution[p[1]][p[2]]

\* a returned puzzle with holes and givens
GivensMatchSolutionWitness ==
    /\ pc = "done"
    /\ Zeros(game_data.puzzle) = MediumCount
    /\ \E p \in Cells : game_data.puzzle[p[1]][p[2]] = game_data.solution[p[1]][p[2]]

---------------------------------------------------------------------------
(* Properties of the window, under UISpec.                                 *)

\* C10: once a handler has returned, every cell that is a given of the
\* current puzzle displays that value, and the mistake counter is between
\* 0 and MaxErrors - 1.
GivensDisplayed ==
    (pc = "idle" /\ game_data # NoGame) =>
        /\ \A p \in Cells :
              game_data.puzzle[p[1]][p[2]] # 0 => cells[p].text = game_data.puzzle[p[1]][p[2]]
        /\ errors \in 0 .. (MaxErrors - 1)

=============================================================================
